---- MODULE Spec2Model ----
(***************************************************************************)
(* Feature_Selection.py as a state machine.  One run of the script is one  *)
(* behaviour: the command line and the input files are fixed by the        *)
(* initial state, and every action is one block of the script's main       *)
(* section or of the selector it dispatches to.                            *)
(*                                                                         *)
(* Python values are tagged: <<"int", n>>, <<"str", s>>, <<"nan", 0>>, so  *)
(* that 1 and '1' are different values, as they are for pandas' replace    *)
(* and ==.  The statistical library calls (forest, ReliefF, LinearSVC /    *)
(* Lasso fits) are black boxes: their result is any ranking / any support  *)
(* mask.  fisher_exact is computed exactly, as a rational.                 *)
(*                                                                         *)
(* The options -feat, -sep, -class, -n_jobs and -ignore stay at their      *)
(* defaults in every modelled run.                                         *)
(***************************************************************************)
EXTENDS Integers, Sequences, FiniteSets, TLC

VARIABLES
  opt,        \* the names bound by the argument loop (lines 243-293)
  disk,       \* the input files: -df, the -df_class file, the -CVs file
  N,          \* N: the -n text, then the list of retain-counts
  class_col,  \* class_col
  df,         \* df
  df_use,     \* df_use: the table handed to the selector
  save_name,  \* save_name
  rank,       \* the selector's ranking (indices / imp_top.index)
  i,          \* position of the `for n_size in n` loop
  written,    \* every file opened for writing, in order: [path, lines]
  stdout,     \* what the run printed (one tag per print call)
  err,        \* the exception that ended the run, or "none"
  pc          \* position in the script

vars == <<opt, disk, N, class_col, df, df_use, save_name, rank, i,
          written, stdout, err, pc>>

----------------------------------------------------------------------------
(* Bounds of the model *)

NumFeat == 2        \* feature columns of the tables of Spec and SpecFET
NumRows == 2        \* rows of the tables of Spec and SpecPrep
NumRowsFET == 7     \* rows of the tables of SpecFET
MaxN == 2           \* largest retain-count on the command line

(* Program constants *)

HeldOut == 5        \* the fold id masked by `cv==5`
UNKNOWN == "unk"

----------------------------------------------------------------------------
(* Python values and text *)

I(n) == <<"int", n>>
S(s) == <<"str", s>>
NaN == <<"nan", 0>>

Digits == <<"0", "1", "2", "3", "4", "5", "6", "7", "8", "9">>

IsNumeral(c) == \E d \in 1..10 : Digits[d] = c

\* int(c) for a one-digit numeral
DigitVal(c) == (CHOOSE d \in 1..10 : Digits[d] = c) - 1

Range(s) == {s[k] : k \in 1..Len(s)}

\* str.join: the characters of a text, as one string
RECURSIVE StrOf(_)
StrOf(cs) == IF cs = <<>> THEN "" ELSE Head(cs) \o StrOf(Tail(cs))

\* int(text) for a text of digits
RECURSIVE IntOf(_)
IntOf(cs) ==
  IF Len(cs) = 1 THEN DigitVal(cs[1])
  ELSE 10 * IntOf(SubSeq(cs, 1, Len(cs) - 1)) + DigitVal(cs[Len(cs)])

IsIntText(cs) == cs # <<>> /\ \A k \in 1..Len(cs) : IsNumeral(cs[k])

\* text.split(','): the fields between the commas (never an empty list)
RECURSIVE SplitComma(_)
SplitComma(cs) ==
  IF \A k \in 1..Len(cs) : cs[k] # "," THEN <<cs>>
  ELSE LET p == CHOOSE k \in 1..Len(cs) :
                  cs[k] = "," /\ \A j \in 1..(k - 1) : cs[j] # ","
       IN <<SubSeq(cs, 1, p - 1)>> \o SplitComma(SubSeq(cs, p + 1, Len(cs)))

\* str.lower() on the method and type names of the modelled command lines
Lower(s) ==
  CASE s = "RandomForest" -> "randomforest"
    [] s = "Chi2" -> "chi2"
    [] s = "LASSO" -> "lasso"
    [] s = "Relief" -> "relief"
    [] s = "Fisher" -> "fisher"
    [] s = "PCA" -> "pca"
    [] OTHER -> s

\* float(text), as a rational <<numerator, denominator>>
ParseFloat(t) ==
  CASE t = "0.05" -> <<1, 20>>
    [] t = "0.5" -> <<1, 2>>

\* str(x) of a float
FloatStr(q) ==
  CASE q = <<1, 20>> -> "0.05"
    [] q = <<1, 2>> -> "0.5"

\* a <= b on rationals with positive denominators
RatLeq(a, b) == a[1] * b[2] <= b[1] * a[2]

----------------------------------------------------------------------------
(* Tables *)

EmptyDF == [cols |-> <<>>, rows |-> <<>>]

\* position of a column name among the columns, 0 when absent
ColIndex(cols, name) ==
  IF \E k \in 1..Len(cols) : cols[k] = name
  THEN CHOOSE k \in 1..Len(cols) :
         cols[k] = name /\ \A j \in 1..(k - 1) : cols[j] # name
  ELSE 0

\* a list without its element at position k
DropAt(s, k) == SubSeq(s, 1, k - 1) \o SubSeq(s, k + 1, Len(s))

\* list.remove(x): drops the first occurrence
RemoveFirst(s, x) == DropAt(s, ColIndex(s, x))

\* pd.read_csv's type of a column: numbers when every non-empty cell is a
\* numeral (1 and 1.0 are the same value here), text otherwise; an empty
\* cell is NaN either way
ReadCell(cells, c) ==
  IF c = "" THEN NaN
  ELSE IF \A k \in 1..Len(cells) : cells[k] = "" \/ IsNumeral(cells[k])
       THEN I(DigitVal(c))
       ELSE S(c)

\* pd.read_csv(path, index_col=0): file = [cols, rows: [id, cells]]
ReadCsv(file) ==
  [cols |-> file.cols,
   rows |-> [r \in 1..Len(file.rows) |->
     [id |-> file.rows[r].id,
      vals |-> [c \in 1..Len(file.cols) |->
        ReadCell([q \in 1..Len(file.rows) |-> file.rows[q].cells[c]],
                 file.rows[r].cells[c])]]]]

HasId(t, id) == \E r \in 1..Len(t.rows) : t.rows[r].id = id

RowOf(t, id) == t.rows[CHOOSE r \in 1..Len(t.rows) : t.rows[r].id = id]

\* pd.concat([df_class[col], df], axis=1, join='inner'): the class column
\* first, on the identifiers both tables have, in df_class's order
ConcatInner(dc, col, d) ==
  LET k == ColIndex(dc.cols, col)
      keep == SelectSeq(dc.rows, LAMBDA r : HasId(d, r.id))
  IN [cols |-> <<col>> \o d.cols,
      rows |-> [r \in 1..Len(keep) |->
                 [id |-> keep[r].id,
                  vals |-> <<keep[r].vals[k]>> \o RowOf(d, keep[r].id).vals]]]

\* df.rename(columns = {old: 'Class'})
Rename(d, old) ==
  [d EXCEPT !.cols = [c \in 1..Len(d.cols) |->
                        IF d.cols[c] = old THEN "Class" ELSE d.cols[c]]]

\* str(v)
TextOf(v) ==
  IF v[1] = "int" THEN Digits[v[2] + 1] ELSE IF v[1] = "str" THEN v[2] ELSE "nan"

\* a replace that compares the printed forms, so that 0 matches '0'
ReplaceByText(v, tok, new) == IF TextOf(v) = TextOf(tok) THEN new ELSE v

\* Series.replace(tok, new): typed equality, every match replaced
Replace(v, tok, new) == IF v = tok THEN new ELSE v

\* df["Class"] = df["Class"].replace(tok, new)
ReplaceClass(d, tok, new) ==
  LET k == ColIndex(d.cols, "Class")
  IN [d EXCEPT !.rows = [r \in 1..Len(d.rows) |->
        [d.rows[r] EXCEPT !.vals[k] = Replace(d.rows[r].vals[k], tok, new)]]]

\* df.dropna(axis=0, how='any')
DropNA(d) ==
  [d EXCEPT !.rows =
     SelectSeq(d.rows, LAMBDA r : \A c \in 1..Len(r.vals) : r.vals[c] # NaN)]

\* lines 316-323: rename, recode (classification only), drop missing
LabelNormalizer(d, ccol, type, pos, neg) ==
  LET d1 == IF ccol # "Class" THEN Rename(d, ccol) ELSE d
      d2 == IF Lower(type) = "c"
            THEN ReplaceClass(ReplaceClass(d1, pos, I(1)), neg, I(0))
            ELSE d1
  IN DropNA(d2)

ClassOf(d, r) == d.rows[r].vals[ColIndex(d.cols, "Class")]

Ids(d) == {d.rows[r].id : r \in 1..Len(d.rows)}

----------------------------------------------------------------------------
(* The selectors' helpers *)

\* top[0:n]
Slice(s, n) == SubSeq(s, 1, IF n < Len(s) THEN n ELSE Len(s))

\* every ordering of a set, as the sequences without repetition
Perms(set) ==
  {p \in [1..Cardinality(set) -> set] :
     \A a, b \in 1..Cardinality(set) : a # b => p[a] # p[b]}

\* SaveTopFeats (lines 44-53).  top = [kind, items]: a Python list has
\* remove(); a numpy array has none, and the bare except hides that.
\* One line is written per remaining name.
SaveTopFeats(top, path) ==
  LET kept == IF top.kind = "list" /\ ColIndex(top.items, "Class") # 0
              THEN RemoveFirst(top.items, "Class")
              ELSE top.items
  IN [path |-> path, lines |-> [k \in 1..Len(kept) |-> <<kept[k]>>]]

\* Y_all.astype('int') succeeds on integers and on texts of digits
AsIntOk(v) == v[1] = "int" \/ (v[1] = "str" /\ IsNumeral(v[2]))

AllClassIntOk(d) == \A r \in 1..Len(d.rows) : AsIntOk(ClassOf(d, r))

\* LinearSVC.fit and ReliefF.fit need samples of at least two classes
TwoClasses(d) ==
  \E a, b \in 1..Len(d.rows) : ClassOf(d, a) # ClassOf(d, b)

\* the dtype of df_use's Class column at line 69: object when a cell of it
\* is a text or was one.  The 'unk' written by line 349 turns a column of
\* integers into an object column, and the filter of line 354 drops the
\* row and keeps the dtype.
ObjectLabels(use, full) ==
  \/ \E r \in 1..Len(use.rows) : ClassOf(use, r)[1] = "str"
  \/ Len(use.rows) < Len(full.rows)

\* RandomForestClassifier.fit (line 87) on Y_all: labels of an integer
\* column, or an object column of texts only, are classification targets
\* ("ok"); an object column whose first label is no text is an unknown
\* label type (ValueError), and one that mixes texts with numbers cannot
\* be sorted (TypeError)
ClassifierTargets(use, full) ==
  IF ~ObjectLabels(use, full) THEN "ok"
  ELSE IF \A r \in 1..Len(use.rows) : ClassOf(use, r)[1] = "str" THEN "ok"
  ELSE IF ClassOf(use, 1)[1] # "str" THEN "ValueError"
  ELSE "TypeError"

\* df.drop('Class', axis=1): the column names of X_all
XCols(d) == DropAt(d.cols, ColIndex(d.cols, "Class"))

\* lines 92-100: [0] + [i + 1 for i in indices[0:n]], read off df.columns
\* (indices are 0-based positions in X_all)
TreeGood(d, indices, n) ==
  LET keep == Slice(indices, n)
      fixed_index == <<0>> \o [k \in 1..Len(keep) |-> keep[k] + 1]
  IN [k \in 1..Len(fixed_index) |-> d.cols[fixed_index[k] + 1]]

\* lines 190-195: np.array(list(df)[1:])[keep], keep a boolean mask over
\* the columns of X_all (given as the set of its 0-based true positions)
L1Good(d, keep) ==
  LET feat_names == Tail(d.cols)
      idx == SelectSeq([k \in 1..Len(feat_names) |-> k - 1],
                       LAMBDA k : k \in keep)
  IN [k \in 1..Len(idx) |-> feat_names[idx[k] + 1]]

\* lines 215-231: the (label, feature) group sizes; a missing group is 0
CountRows(d, k, label, fv) ==
  Cardinality({r \in 1..Len(d.rows) :
     ClassOf(d, r) = label /\ d.rows[r].vals[ColIndex(d.cols, k)] = fv})

\* <<TP, FN, FP, TN>> of feature k
Contingency(d, k, pos, neg) ==
  <<CountRows(d, k, pos, I(1)), CountRows(d, k, pos, I(0)),
    CountRows(d, k, neg, I(1)), CountRows(d, k, neg, I(0))>>

RECURSIVE Fact(_)
Fact(n) == IF n <= 1 THEN 1 ELSE n * Fact(n - 1)

Choose(n, k) == IF k < 0 \/ k > n THEN 0 ELSE Fact(n) \div (Fact(k) * Fact(n - k))

RECURSIVE SumOver(_, _, _)
SumOver(f, lo, hi) == IF lo > hi THEN 0 ELSE f[lo] + SumOver(f, lo + 1, hi)

\* scipy.stats.fisher_exact([[TP,FN],[FP,TN]], alternative='greater'):
\* the hypergeometric probability of TP or more, as a rational
FisherGreater(t) ==
  LET n1 == t[1] + t[2]
      n2 == t[3] + t[4]
      m == t[1] + t[3]
      hi == IF n1 < m THEN n1 ELSE m
      term == [x \in t[1]..hi |-> Choose(n1, x) * Choose(n2, m - x)]
  IN <<SumOver(term, t[1], hi), Choose(n1 + n2, m)>>

\* lines 207-236: [CL] and then every feature with pvalue <= PARAMETER
Enriched(d, CL, PARAMETER, pos, neg) ==
  LET kmers == RemoveFirst(d.cols, CL)
  IN <<CL>> \o SelectSeq(kmers, LAMBDA k :
       RatLeq(FisherGreater(Contingency(d, k, pos, neg)), PARAMETER))

\* the chained assignment landing on a temporary copy of the column
MaskFoldOnCopy(d, cv) == d

\* lines 348-349: df_use['Class'][cv == 5] = 'unk'
MaskFold(d, cv) ==
  LET k == ColIndex(d.cols, "Class")
  IN [d EXCEPT !.rows = [r \in 1..Len(d.rows) |->
        IF RowOf(cv, d.rows[r].id).vals[1] = I(HeldOut)
        THEN [d.rows[r] EXCEPT !.vals[k] = S(UNKNOWN)]
        ELSE d.rows[r]]]

\* lines 353-354
DropUnk(d) ==
  IF \E r \in 1..Len(d.rows) : ClassOf(d, r) = S(UNKNOWN)
  THEN [d EXCEPT !.rows =
          SelectSeq(d.rows, LAMBDA r : r.vals[ColIndex(d.cols, "Class")] # S(UNKNOWN))]
  ELSE d

\* a save_name that always composes the default name
SaveNameComposed(o) ==
  IF "jobNum" \in o.bound
  THEN o.DF[Len(o.DF)] \o "_" \o o.F \o "_cv" \o o.jobNum
  ELSE o.DF[Len(o.DF)] \o "_" \o o.F

\* lines 356-362
SaveName(o) ==
  IF o.SAVE # "default" THEN o.SAVE
  ELSE IF "jobNum" \in o.bound
       THEN o.DF[Len(o.DF)] \o "_" \o o.F \o "_cv" \o o.jobNum
       ELSE o.DF[Len(o.DF)] \o "_" \o o.F

\* lines 103, 138, 163: save_name + "_" + str(n_size)
SaveName2(name, n_size) == name \o "_" \o StrOf(n_size)

IsRF(f) == Lower(f) = "randomforest" \/ Lower(f) = "rf"
IsChi2(f) == Lower(f) = "chi2" \/ Lower(f) = "c2"
IsL1(f) == Lower(f) = "l1" \/ Lower(f) = "lasso"
IsRelief(f) == Lower(f) = "relief" \/ Lower(f) = "rebate"
IsFET(f) == Lower(f) = "fisher" \/ Lower(f) = "fet" \/ Lower(f) = "enrich"

----------------------------------------------------------------------------
(* The bounded input space: command lines and files *)

FeatNames(n) == [k \in 1..n |-> "f" \o Digits[k + 1]]

RowId(r) == "e" \o Digits[r + 1]

InsertAt(s, k, x) == SubSeq(s, 1, k) \o <<x>> \o SubSeq(s, k + 1, Len(s))

\* the state of the names after lines 243-256, before any option is read
Defaults ==
  [argc |-> TRUE, bound |-> {}, DF |-> <<"data", "feat.txt">>, F |-> "",
   PARAMETER |-> <<0, 1>>, TYPE |-> "c", pos |-> I(1), neg |-> I(0),
   SAVE |-> "default", save_list |-> "false", CVs |-> "pass", jobNum |-> "",
   DF_CLASS |-> <<"default">>, CL |-> "Class"]

\* the -n texts: one count, or two counts joined by a comma
NTexts ==
  {<<Digits[a + 1]>> : a \in 1..MaxN}
    \cup {<<Digits[a + 1], ",", Digits[b + 1]>> :
            a \in 1..MaxN, b \in 2..MaxN}

Methods == {"RandomForest", "Chi2", "LASSO", "Relief", "Fisher", "PCA"}

\* a no-argument run has nothing bound beyond the defaults
NoArgs == [Defaults EXCEPT !.argc = FALSE]

\* the fold file: one replicate column cv_1
FoldFile(ids, folds) ==
  [cols |-> <<"cv_1">>,
   rows |-> [r \in 1..Len(ids) |-> [id |-> ids[r], cells |-> <<folds[r]>>]]]

NoFile == [cols |-> <<>>, rows |-> <<>>]

\* Spec: a fixed two-class table with the Class column at position k
RunFile(k) ==
  [cols |-> InsertAt(FeatNames(NumFeat), k, "Class"),
   rows |-> [r \in 1..NumRows |->
     [id |-> RowId(r),
      cells |-> InsertAt([j \in 1..NumFeat |-> Digits[((r + j) % 2) + 1]], k,
                         Digits[(r % 2) + 1])]]]

\* a fold file for the first n examples, those of held in fold 5
RunFolds(n, held) ==
  FoldFile([r \in 1..n |-> RowId(r)],
           [r \in 1..n |-> IF r \in held THEN "5" ELSE "1"])

\* the fold file misses the last example, or covers every example and holds
\* out none, the last one, or all of them
RunDisks(o) ==
  {[DF |-> RunFile(k), CLASS |-> NoFile,
    CV |-> IF o.CVs = "pass" THEN NoFile ELSE cv] :
     k \in 0..NumFeat,
     cv \in {RunFolds(NumRows - 1, {})}
            \cup {RunFolds(NumRows, h) : h \in {{}, {NumRows}, 1..NumRows}}}

RunOpts ==
  {[Defaults EXCEPT
      !.bound = b, !.F = IF "F" \in b THEN f ELSE "",
      !.PARAMETER = IF "PARAMETER" \in b THEN ParseFloat("0.05") ELSE <<0, 1>>,
      !.TYPE = t, !.SAVE = s, !.save_list = l,
      !.CVs = IF "CVs" \in b THEN "folds.csv" ELSE "pass",
      !.jobNum = IF "jobNum" \in b THEN "1" ELSE ""] :
    b \in SUBSET {"F", "N", "PARAMETER", "CVs", "jobNum"},
    f \in Methods, t \in {"c", "r", "x"}, s \in {"default", "out"},
    l \in {"false", "T"}}

InitWith(o, d, n) ==
  /\ opt = o
  /\ disk = d
  /\ N = n
  /\ class_col = "Class"
  /\ df = EmptyDF
  /\ df_use = EmptyDF
  /\ save_name = ""
  /\ rank = <<>>
  /\ i = 0
  /\ written = <<>>
  /\ stdout = <<>>
  /\ err = "none"
  /\ pc = "start"

Init ==
  \E o \in RunOpts \cup {NoArgs}, n \in NTexts :
    \E d \in RunDisks(o) :
      InitWith(o, d, IF "N" \in o.bound THEN n ELSE <<>>)

----------------------------------------------------------------------------
(* The script, block by block *)

Crash(e) == err' = e /\ pc' = "crashed"

\* lines 296-298: no arguments, print the usage and exit
Usage ==
  /\ pc = "start" /\ ~opt.argc
  /\ stdout' = Append(stdout, "doc")
  /\ pc' = "exited"
  /\ UNCHANGED <<opt, disk, N, class_col, df, df_use, save_name, rank, i,
                 written, err>>

\* lines 301-314: read the table, merge the class file when one is given
Load ==
  /\ pc = "start" /\ opt.argc
  /\ IF opt.DF_CLASS # <<"default">>
     THEN LET parts == SplitComma(opt.DF_CLASS)
              df_class_col == StrOf(parts[2])
          IN /\ class_col' = df_class_col
             /\ df' = ConcatInner(ReadCsv(disk.CLASS), df_class_col,
                                  ReadCsv(disk.DF))
             /\ stdout' = stdout \o <<"merged", "original">>
     ELSE /\ df' = ReadCsv(disk.DF)
          /\ stdout' = Append(stdout, "original")
          /\ UNCHANGED class_col
  /\ pc' = "loaded"
  /\ UNCHANGED <<opt, disk, N, df_use, save_name, rank, i, written, err>>

\* lines 316-323
Normalize ==
  /\ pc = "loaded"
  /\ df' = LabelNormalizer(df, class_col, opt.TYPE, opt.pos, opt.neg)
  /\ pc' = "normalized"
  /\ UNCHANGED <<opt, disk, N, class_col, df_use, save_name, rank, i,
                 written, stdout, err>>

\* lines 326-330: an unbound N raises NameError in the try and again in
\* the except
SplitN ==
  /\ pc = "normalized"
  /\ IF "N" \in opt.bound
     THEN /\ N' = SplitComma(N)
          /\ stdout' = Append(stdout, "N")
          /\ pc' = "split"
          /\ UNCHANGED err
     ELSE /\ Crash("NameError")
          /\ UNCHANGED <<N, stdout>>
  /\ UNCHANGED <<opt, disk, class_col, df, df_use, save_name, rank, i, written>>

\* lines 333-349: print the head, copy, mask the held-out fold
PrepareUse ==
  /\ pc = "split"
  /\ IF opt.CVs = "pass"
     THEN /\ df_use' = df
          /\ stdout' = Append(stdout, "head")
          /\ pc' = "masked"
          /\ UNCHANGED err
     ELSE IF "jobNum" \notin opt.bound
     THEN /\ df_use' = df
          /\ stdout' = Append(stdout, "head")
          /\ Crash("NameError")
     ELSE LET cv_folds == ReadCsv(disk.CV)
          IN IF ColIndex(cv_folds.cols, "cv_" \o opt.jobNum) = 0
             THEN /\ df_use' = df
                  /\ stdout' = stdout \o <<"head", "cv">>
                  /\ Crash("KeyError")
             ELSE IF \E r \in 1..Len(df.rows) : ~HasId(cv_folds, df.rows[r].id)
             THEN /\ df_use' = df
                  /\ stdout' = stdout \o <<"head", "cv">>
                  /\ Crash("IndexingError")
             ELSE /\ df_use' = MaskFold(df, cv_folds)
                  /\ stdout' = stdout \o <<"head", "cv">>
                  /\ pc' = "masked"
                  /\ UNCHANGED err
  /\ UNCHANGED <<opt, disk, N, class_col, df, save_name, rank, i, written>>

\* lines 353-354
DropUnknown ==
  /\ pc = "masked"
  /\ df_use' = DropUnk(df_use)
  /\ pc' = "cleaned"
  /\ UNCHANGED <<opt, disk, N, class_col, df, save_name, rank, i, written,
                 stdout, err>>

\* lines 356-362: an unbound F raises NameError in the try and again in
\* the except
ComposeName ==
  /\ pc = "cleaned"
  /\ IF opt.SAVE = "default" /\ "F" \notin opt.bound
     THEN Crash("NameError") /\ UNCHANGED save_name
     ELSE save_name' = SaveName(opt) /\ pc' = "named" /\ UNCHANGED err
  /\ UNCHANGED <<opt, disk, N, class_col, df, df_use, rank, i, written, stdout>>

\* lines 364-381: the branch taken, with the L1 / Fisher default name;
\* no branch matches an unknown method and the script ends
Dispatch ==
  /\ pc = "named"
  /\ IF "F" \notin opt.bound
     THEN Crash("NameError") /\ UNCHANGED save_name
     ELSE IF IsRF(opt.F)
     THEN pc' = "rf" /\ UNCHANGED <<save_name, err>>
     ELSE IF IsChi2(opt.F)
     THEN pc' = "chi2" /\ UNCHANGED <<save_name, err>>
     ELSE IF IsL1(opt.F) \/ IsFET(opt.F)
     THEN IF "PARAMETER" \notin opt.bound
          THEN Crash("NameError") /\ UNCHANGED save_name
          ELSE /\ save_name' = IF opt.SAVE = "default"
                               THEN save_name \o "_" \o FloatStr(opt.PARAMETER)
                               ELSE save_name
               /\ pc' = IF IsL1(opt.F) THEN "l1" ELSE "fet"
               /\ UNCHANGED err
     ELSE IF IsRelief(opt.F)
     THEN pc' = "relief" /\ UNCHANGED <<save_name, err>>
     ELSE pc' = "done" /\ UNCHANGED <<save_name, err>>
  /\ UNCHANGED <<opt, disk, N, class_col, df, df_use, rank, i, written, stdout>>

\* DecisionTree, lines 68-90: a -type other than c / r prints and exits;
\* astype('float') fails on labels that are no numbers; after the print the
\* fit fails on an empty table and, for the classifier, on labels that are
\* no classification targets; otherwise the forest's importances order the
\* columns of X_all in any way
TreeFit ==
  /\ pc = "rf"
  /\ IF Lower(opt.TYPE) \notin {"c", "r"}
     THEN /\ stdout' = Append(stdout, "need_type")
          /\ pc' = "exited"
          /\ UNCHANGED <<rank, i, err>>
     ELSE IF Lower(opt.TYPE) = "r" /\ ~AllClassIntOk(df_use)
     THEN Crash("ValueError") /\ UNCHANGED <<rank, i, stdout>>
     ELSE IF Len(df_use.rows) = 0
     THEN /\ stdout' = Append(stdout, "running")
          /\ Crash("ValueError")
          /\ UNCHANGED <<rank, i>>
     ELSE IF Lower(opt.TYPE) = "c" /\ ClassifierTargets(df_use, df) # "ok"
     THEN /\ stdout' = Append(stdout, "running")
          /\ Crash(ClassifierTargets(df_use, df))
          /\ UNCHANGED <<rank, i>>
     ELSE /\ rank' \in Perms(0..(Len(df_use.cols) - 2))
          /\ i' = 1
          /\ stdout' = Append(stdout, "running")
          /\ pc' = "rf_loop"
          /\ UNCHANGED err
  /\ UNCHANGED <<opt, disk, N, class_col, df, df_use, save_name, written>>

\* DecisionTree, lines 92-104: one pass of `for n_size in n`
TreeKeep ==
  /\ pc = "rf_loop"
  /\ IF ~IsIntText(N[i])
     THEN Crash("ValueError") /\ UNCHANGED <<written, stdout, i>>
     ELSE /\ written' = Append(written,
               SaveTopFeats([kind |-> "list",
                             items |-> TreeGood(df_use, rank, IntOf(N[i]))],
                            SaveName2(save_name, N[i])))
          /\ stdout' = Append(stdout, "selected")
          /\ i' = i + 1
          /\ pc' = IF i = Len(N) THEN "done" ELSE "rf_loop"
          /\ UNCHANGED err
  /\ UNCHANGED <<opt, disk, N, class_col, df, df_use, save_name, rank>>

\* Chi2, lines 116-125: astype('int') fails on labels that are no integers;
\* SelectKBest is built with k=n, the whole list, and on the first pass of
\* the loop its fit validates the data, failing on an empty table, and
\* then rejects a k that is no number
Chi2Run ==
  /\ pc = "chi2"
  /\ IF ~AllClassIntOk(df_use)
     THEN stdout' = Append(stdout, "warning") /\ Crash("ValueError")
     ELSE IF Len(df_use.rows) = 0
     THEN stdout' = stdout \o <<"warning", "Y_all">> /\ Crash("ValueError")
     ELSE stdout' = stdout \o <<"warning", "Y_all">> /\ Crash("TypeError")
  /\ UNCHANGED <<opt, disk, N, class_col, df, df_use, save_name, rank, i, written>>

\* Relief, lines 146-158: astype('int') fails on labels that are no
\* integers; after the print the fit fails on labels of fewer than two
\* classes (an empty table has none); otherwise ReliefF's importances
\* order the feature names in any way
ReliefFit ==
  /\ pc = "relief"
  /\ IF ~AllClassIntOk(df_use)
     THEN Crash("ValueError") /\ UNCHANGED <<rank, i, stdout>>
     ELSE IF ~TwoClasses(df_use)
     THEN /\ stdout' = Append(stdout, "running")
          /\ Crash("ValueError")
          /\ UNCHANGED <<rank, i>>
     ELSE /\ rank' \in Perms(Range(XCols(df_use)))
          /\ i' = 1
          /\ stdout' = Append(stdout, "running")
          /\ pc' = "relief_loop"
          /\ UNCHANGED err
  /\ UNCHANGED <<opt, disk, N, class_col, df, df_use, save_name, written>>

\* Relief, lines 160-164: one pass of `for n_size in n`
ReliefKeep ==
  /\ pc = "relief_loop"
  /\ IF ~IsIntText(N[i])
     THEN Crash("ValueError") /\ UNCHANGED <<written, stdout, i>>
     ELSE /\ written' = Append(written,
               SaveTopFeats([kind |-> "ndarray",
                             items |-> Slice(rank, IntOf(N[i]))],
                            SaveName2(save_name, N[i])))
          /\ stdout' = Append(stdout, "selected")
          /\ i' = i + 1
          /\ pc' = IF i = Len(N) THEN "done" ELSE "relief_loop"
          /\ UNCHANGED err
  /\ UNCHANGED <<opt, disk, N, class_col, df, df_use, save_name, rank>>

\* L1, lines 179-201: astype('int') fails on labels that are no integers;
\* a -type that names no estimator fits nothing and leaves estimator
\* unbound at line 190, after the print; the fit, before the print, fails
\* on an empty table and, for the classifier, on a single class; otherwise
\* the fitted model supports any set of columns of X_all
L1Select ==
  /\ pc = "l1"
  /\ IF ~AllClassIntOk(df_use)
     THEN Crash("ValueError") /\ UNCHANGED <<written, stdout>>
     ELSE IF opt.TYPE \notin {"c", "classification", "r", "regression"}
     THEN /\ stdout' = Append(stdout, "running")
          /\ Crash("UnboundLocalError")
          /\ UNCHANGED written
     ELSE IF \/ Len(df_use.rows) = 0
             \/ opt.TYPE \in {"c", "classification"} /\ ~TwoClasses(df_use)
     THEN Crash("ValueError") /\ UNCHANGED <<written, stdout>>
     ELSE \E keep \in SUBSET (0..(Len(df_use.cols) - 2)) :
          /\ written' = Append(written,
               SaveTopFeats([kind |-> "ndarray", items |-> L1Good(df_use, keep)],
                            save_name))
          /\ stdout' = stdout \o <<"running", "selected", "count">>
          /\ pc' = "done"
          /\ UNCHANGED err
  /\ UNCHANGED <<opt, disk, N, class_col, df, df_use, save_name, rank, i>>

\* FET, lines 207-239
FETSelect ==
  /\ pc = "fet"
  /\ IF ColIndex(df_use.cols, opt.CL) = 0
     THEN Crash("ValueError") /\ UNCHANGED <<written, stdout>>
     ELSE /\ written' = Append(written,
               SaveTopFeats([kind |-> "list",
                             items |-> Enriched(df_use, opt.CL, opt.PARAMETER,
                                                opt.pos, opt.neg)],
                            save_name))
          /\ stdout' = Append(stdout, "running")
          /\ pc' = "done"
          /\ UNCHANGED err
  /\ UNCHANGED <<opt, disk, N, class_col, df, df_use, save_name, rank, i>>

Next ==
  \/ Usage
  \/ Load
  \/ Normalize
  \/ SplitN
  \/ PrepareUse
  \/ DropUnknown
  \/ ComposeName
  \/ Dispatch
  \/ TreeFit
  \/ TreeKeep
  \/ Chi2Run
  \/ ReliefFit
  \/ ReliefKeep
  \/ L1Select
  \/ FETSelect

Spec == Init /\ [][Next]_vars

----------------------------------------------------------------------------
(* SpecNorm and SpecPrep: the data preparation on every small table.  The *)
(* command line is a Fisher run.  SpecNorm runs the script up to the end  *)
(* of the label recoding, over every pair of tokens; SpecPrep runs it to  *)
(* the end, over every fold assignment.                                   *)

FeatCells == {"1", ""}

FoldCells == {"1", "5"}

\* -pos / -neg: the defaults (integers) or command-line texts
TokenTexts == {"0", "1", "UUN", "NNN"}

AllTokenPairs ==
  ({I(1)} \cup {S(t) : t \in TokenTexts}) \X ({I(0)} \cup {S(t) : t \in TokenTexts})

TokenPairs ==
  {<<I(1), I(0)>>, <<S("UUN"), S("NNN")>>, <<S("1"), S("0")>>}

PrepIds == [r \in 1..NumRows |-> RowId(r)]

\* the label column inside -df, or alone in the -df_class file as column Y
PrepDisk(separate, cls, feat, folds, cv) ==
  [DF |-> [cols |-> IF separate THEN <<"f1">> ELSE <<"Class", "f1">>,
           rows |-> [r \in 1..NumRows |->
             [id |-> PrepIds[r],
              cells |-> IF separate THEN <<feat[r]>> ELSE <<cls[r], feat[r]>>]]],
   CLASS |-> IF separate
             THEN [cols |-> <<"Y">>,
                   rows |-> [r \in 1..NumRows |->
                              [id |-> PrepIds[r], cells |-> <<cls[r]>>]]]
             ELSE NoFile,
   CV |-> IF cv THEN FoldFile(PrepIds, folds) ELSE NoFile]

PrepOpt(type, tok, separate, cv) ==
  [Defaults EXCEPT
     !.bound = {"F", "N", "PARAMETER"}
                 \cup (IF cv THEN {"CVs", "jobNum"} ELSE {}),
     !.F = "Fisher", !.PARAMETER = ParseFloat("0.05"), !.TYPE = type,
     !.pos = tok[1], !.neg = tok[2],
     !.CVs = IF cv THEN "folds.csv" ELSE "pass",
     !.jobNum = IF cv THEN "1" ELSE "",
     !.DF_CLASS = IF separate THEN <<"cls.txt", ",", "Y">> ELSE <<"default">>]

InitNorm ==
  \E type \in {"c", "r"}, tok \in AllTokenPairs, separate \in BOOLEAN,
     cls \in [1..NumRows -> {"1", "0", "UUN", "NNN", ""}],
     feat \in [1..NumRows -> FeatCells] :
    InitWith(PrepOpt(type, tok, separate, FALSE),
             PrepDisk(separate, cls, feat, <<>>, FALSE), <<"1">>)

NextNorm ==
  \/ Load
  \/ Normalize

SpecNorm == InitNorm /\ [][NextNorm]_vars

InitPrep ==
  \E type \in {"c", "r"}, tok \in {<<I(1), I(0)>>, <<S("UUN"), S("NNN")>>},
     cv \in BOOLEAN, cls \in [1..NumRows -> {"1", "0", "UUN", UNKNOWN, ""}],
     feat \in [1..NumRows -> FeatCells] :
    \E folds \in IF cv THEN [1..NumRows -> FoldCells]
                 ELSE {[r \in 1..NumRows |-> "1"]} :
      InitWith(PrepOpt(type, tok, FALSE, cv),
               PrepDisk(FALSE, cls, feat, folds, cv), <<"1">>)

NextPrep ==
  \/ Load
  \/ Normalize
  \/ SplitN
  \/ PrepareUse
  \/ DropUnknown
  \/ ComposeName
  \/ Dispatch
  \/ FETSelect

SpecPrep == InitPrep /\ [][NextPrep]_vars

----------------------------------------------------------------------------
(* SpecFET: Fisher runs on larger two-class tables of binary features.    *)
(* The rows are listed in a fixed order of their contents.                *)

RECURSIVE Pow2(_)
Pow2(n) == IF n = 0 THEN 1 ELSE 2 * Pow2(n - 1)

\* the non-decreasing sequences of length len over lo..hi
RECURSIVE SortedSeqs(_, _, _)
SortedSeqs(len, lo, hi) ==
  IF len = 0 THEN {<<>>}
  ELSE UNION {{<<a>> \o t : t \in SortedSeqs(len - 1, a, hi)} : a \in lo..hi}

\* the label texts of a file: numerals, or the tokens UUN / NNN
LabelTexts == {<<"1", "0">>, <<"UUN", "NNN">>}

\* row kind t: its label is positive when t < 2^NumFeat, and bit j of t is
\* its value of feature j
FETFile(kinds, labels) ==
  [cols |-> <<"Class">> \o FeatNames(NumFeat),
   rows |-> [r \in 1..Len(kinds) |->
     [id |-> RowId(r),
      cells |-> <<labels[(kinds[r] \div Pow2(NumFeat)) + 1]>>
                  \o [j \in 1..NumFeat |->
                       Digits[((kinds[r] \div Pow2(j - 1)) % 2) + 1]]]]]

InitFET ==
  \E type \in {"c", "r"}, tok \in TokenPairs, labels \in LabelTexts,
     kinds \in SortedSeqs(NumRowsFET, 0, 2 * Pow2(NumFeat) - 1) :
    InitWith(PrepOpt(type, tok, FALSE, FALSE),
             [DF |-> FETFile(kinds, labels), CLASS |-> NoFile, CV |-> NoFile],
             <<"1">>)

SpecFET == InitFET /\ [][NextPrep]_vars

----------------------------------------------------------------------------
(* The claims *)

Terminated == pc \in {"done", "crashed", "exited"}

AfterClean ==
  pc \in {"cleaned", "named", "rf", "rf_loop", "chi2", "relief", "relief_loop",
          "l1", "fet", "done"}

KnownMethod(f) == IsRF(f) \/ IsChi2(f) \/ IsL1(f) \/ IsRelief(f) \/ IsFET(f)

\* the fold options are usable: none, or a replicate index and a fold file
\* that covers every example of the table
FoldsUsable ==
  \/ opt.CVs = "pass"
  \/ /\ "jobNum" \in opt.bound
     /\ \A r \in 1..Len(disk.DF.rows) : HasId(disk.CV, disk.DF.rows[r].id)

FoldOf(id) == RowOf(ReadCsv(disk.CV), id).vals[1]

NumFeatures == Len(df_use.cols) - 1

\* C1: no file written by SaveTopFeats has the line 'Class', whatever the
\* method and wherever the Class column stands in the input table.
NameListNeverHasClass ==
  \A k \in 1..Len(written) :
    \A l \in 1..Len(written[k].lines) : written[k].lines[l] # <<"Class">>

\* C2: a finished RandomForest, Chi2 or Relief run with usable options has
\* written, for every requested N <= the number of feature columns, a file
\* for that N with exactly N names.
ExactlyNNames ==
  ( /\ Terminated
    /\ {"F", "N"} \subseteq opt.bound
    /\ IsRF(opt.F) \/ IsChi2(opt.F) \/ IsRelief(opt.F)
    /\ Lower(opt.TYPE) \in {"c", "r"}
    /\ FoldsUsable )
  => \A j \in 1..Len(N) :
       IntOf(N[j]) <= NumFeatures =>
         \E k \in 1..Len(written) :
           /\ written[k].path = SaveName2(save_name, N[j])
           /\ Len(written[k].lines) = IntOf(N[j])

\* C3: with a fold file and a replicate index, every example of the held-out
\* fold 5 first has its Class set to 'unk' (the others are untouched), and
\* the table handed to the selector is exactly the examples of the other
\* folds whose Class is not 'unk', unchanged and in order.
FoldMaskerRemovesHeldOut ==
  opt.CVs # "pass" =>
    /\ pc = "masked" =>
         /\ Len(df_use.rows) = Len(df.rows)
         /\ \A r \in 1..Len(df.rows) :
              IF FoldOf(df.rows[r].id) = I(HeldOut)
              THEN ClassOf(df_use, r) = S(UNKNOWN)
              ELSE df_use.rows[r] = df.rows[r]
    /\ AfterClean =>
         df_use.rows =
           SelectSeq(df.rows, LAMBDA r :
             /\ FoldOf(r.id) # I(HeldOut)
             /\ r.vals[ColIndex(df.cols, "Class")] # S(UNKNOWN))

\* C3 witness: a labelled example of fold 5 was removed and another example
\* was kept.
HeldOutRemoved ==
  /\ pc = "cleaned"
  /\ opt.CVs # "pass"
  /\ df_use.rows # <<>>
  /\ \E r \in 1..Len(df.rows) :
       /\ FoldOf(df.rows[r].id) = I(HeldOut)
       /\ ClassOf(df, r) # S(UNKNOWN)
       /\ df.rows[r].id \notin Ids(df_use)

\* C4: the table the Label Normalizer produced is a fixed point of the
\* Label Normalizer, for every table and every pair of tokens.
NormalizerIdempotent ==
  pc = "normalized" =>
    LabelNormalizer(df, class_col, opt.TYPE, opt.pos, opt.neg) = df

\* C4 witness: the normalizer renamed the class column, recoded a positive
\* token to 1 and dropped a row.
NormalizerActed ==
  /\ pc = "normalized"
  /\ class_col = "Y"
  /\ opt.pos = S("UUN")
  /\ Len(df.rows) < NumRows
  /\ \E r \in 1..Len(df.rows) : ClassOf(df, r) = I(1)

PosText == TextOf(opt.pos)
NegText == TextOf(opt.neg)

RawCount(label) ==
  Cardinality({r \in 1..Len(disk.DF.rows) : disk.DF.rows[r].cells[1] = label})

\* feature column c of the input file is 1 on every positive example and 0
\* on every negative one, and every example is one or the other
PerfectFeature(c) ==
  /\ RawCount(PosText) >= 1
  /\ RawCount(NegText) >= 1
  /\ \A r \in 1..Len(disk.DF.rows) :
       LET row == disk.DF.rows[r].cells
       IN \/ row[1] = PosText /\ row[c] = "1"
          \/ row[1] = NegText /\ row[c] = "0"

\* C5: after a Fisher run, a feature that is 1 on every positive and 0 on
\* every negative example (on a table large enough for that to be
\* significant at 0.05) has the contingency table <<TP, FN, FP, TN>> =
\* <<positives, 0, 0, negatives>> and is in the written list.
PerfectFeatureRetained ==
  (pc = "done" /\ IsFET(opt.F)) =>
    \A c \in 2..Len(disk.DF.cols) :
      ( /\ PerfectFeature(c)
        /\ RatLeq(FisherGreater(<<RawCount(PosText), 0, 0, RawCount(NegText)>>),
                  <<1, 20>>) )
      => /\ Contingency(df_use, disk.DF.cols[c], opt.pos, opt.neg)
              = <<RawCount(PosText), 0, 0, RawCount(NegText)>>
         /\ \E l \in 1..Len(written[1].lines) :
              written[1].lines[l] = <<disk.DF.cols[c]>>

\* the default name of lines 360-362, spelled out
ComposedName ==
  "feat.txt_" \o opt.F \o (IF "jobNum" \in opt.bound THEN "_cv" \o opt.jobNum ELSE "")

\* C6, as the script has it: with -save, L1 and Fisher write to exactly that
\* path and RandomForest, Chi2 and Relief to that path followed by "_" and
\* the retain-count; without -save the composed name takes that place,
\* followed for L1 and Fisher by "_" and the parameter.
ExplicitPathWins ==
  \A k \in 1..Len(written) :
    LET base == IF opt.SAVE # "default" THEN opt.SAVE ELSE ComposedName
    IN IF IsL1(opt.F) \/ IsFET(opt.F)
       THEN written[k].path =
              IF opt.SAVE # "default" THEN opt.SAVE
              ELSE base \o "_" \o FloatStr(opt.PARAMETER)
       ELSE \E j \in 1..Len(N) : written[k].path = base \o "_" \o StrOf(N[j])

\* C6 witness: a RandomForest run with -save wrote two files, neither at the
\* given path itself.
SavedUnderSuffix ==
  /\ pc = "done"
  /\ opt.SAVE # "default"
  /\ IsRF(opt.F)
  /\ Len(written) = 2
  /\ written[1].path # written[2].path
  /\ written[1].path # opt.SAVE

\* C6 as stated: with -save, every file of the run is at exactly that path.
ExplicitPathExact ==
  \A k \in 1..Len(written) :
    opt.SAVE # "default" => written[k].path = opt.SAVE

\* what the script prints before it dispatches
PrepTags == {"merged", "original", "N", "head", "cv"}

\* C7: a run whose method name matches no method ends having printed a
\* report (something beyond the preparation's prints) and written no file.
UnknownMethodReported ==
  (pc = "done" /\ "F" \in opt.bound /\ ~KnownMethod(opt.F)) =>
    /\ \E k \in 1..Len(stdout) : stdout[k] \notin PrepTags
    /\ written = <<>>

\* a delimited table of df_use: a header line that names Class, then one
\* line per example
IsTableFile(w) ==
  /\ Len(w.lines) = Len(df_use.rows) + 1
  /\ "Class" \in Range(w.lines[1])

\* -list T
ListMode == opt.save_list \in {"T", "t", "true"}

\* C8: unless -list selects the name list, every file written is a table
\* with the Class column.
TableModeWritesTable ==
  \A k \in 1..Len(written) : ~ListMode => IsTableFile(written[k])

\* C9: a Fisher run without -p (its other options usable) ends normally,
\* having written exactly the features whose p-value is <= 0.05.
FisherDefaultThreshold ==
  ( /\ Terminated
    /\ {"F", "N"} \subseteq opt.bound
    /\ IsFET(opt.F)
    /\ "PARAMETER" \notin opt.bound
    /\ FoldsUsable )
  => /\ pc = "done"
     /\ Len(written) = 1
     /\ written[1].lines =
          [l \in 1..(Len(Enriched(df_use, "Class", <<1, 20>>, opt.pos, opt.neg)) - 1)
             |-> <<Enriched(df_use, "Class", <<1, 20>>, opt.pos, opt.neg)[l + 1]>>]

\* C10: an L1 or Fisher run with -p and a valid -type but without -n ends
\* normally, having written its one output file.
NoRetainCountNeeded ==
  ( /\ Terminated
    /\ {"F", "PARAMETER"} \subseteq opt.bound
    /\ IsL1(opt.F) \/ IsFET(opt.F)
    /\ "N" \notin opt.bound
    /\ opt.TYPE \in {"c", "r"}
    /\ opt.CVs = "pass" )
  => /\ pc = "done"
     /\ Len(written) = 1

====
